---- MODULE Spec2Model ----
(***************************************************************************)
(* A model of the ONNX importer (lib/Importer/ONNX.cpp): the two load      *)
(* entry points (ONNXModelLoader::parse and the file constructor), the     *)
(* helpers setVersion, getBroadcast, getPads, loadTensor and the           *)
(* per-operator lowering of loadOperator.                                  *)
(***************************************************************************)
EXTENDS Integers, Sequences, FiniteSets, TLC

\* ---------------------------------------------------------------- bounds
MaxNodes == 2        \* longest node list of a model in the pipeline
MaxImports == 2      \* longest opset_import list given to setVersion
MaxVersion == 8      \* largest opset / ir version drawn
MaxAttrInt == 3      \* largest integer attribute value drawn
MaxAttrs == 2        \* longest attribute list given to getBroadcast / getPads
MaxExtent == 3       \* largest spatial extent of a pooled input

VARIABLES
  entry,             \* "parse" (bytes+size) or "ctor" (file constructor)
  build,             \* "debug": assert() is compiled in; "release": NDEBUG
  model,             \* the decoded onnx::ModelProto and the caller's arguments
  pc,                \* position of the load in its entry point
  irVersion_, opsetVersion_,
  tensors_,          \* name -> Tensor
  nodeValueByName_,  \* name -> index into G_ of the value bound to the name
  outputsByName_,    \* name -> index into G_ of the save node
  G_,                \* the destination Function: the IR nodes and variables
  idx,               \* loop counter of loadNetwork
  reported,          \* index of the node passed to unexpectedNodeError, or -1
  ret,               \* what the entry point returned
  steps,             \* the pipeline steps run so far, in order
  call, retval       \* a direct call of a helper and what it returned

vars == <<entry, build, model, pc, irVersion_, opsetVersion_, tensors_,
          nodeValueByName_, outputsByName_, G_, idx, reported, ret, steps,
          call, retval>>

\* --------------------------------------------------------------- utilities
Put(m, k, v) == [x \in DOMAIN m \cup {k} |-> IF x = k THEN v ELSE m[x]]

EmptyMap == [x \in {} |-> 0]

RECURSIVE Product(_)
Product(s) == IF s = <<>> THEN 1 ELSE Head(s) * Product(Tail(s))

Zeros(n) == [i \in 1..n |-> 0]

\* ------------------------------------------------------------------ tensors
\* An in-memory Tensor: element kind, dims and the row-major payload.
Tensor(kind, dims, data, owner) ==
  [kind |-> kind, dims |-> dims, data |-> data, owner |-> owner]

\* The default-constructed Tensor (new Tensor()).
EmptyTensor == Tensor("float", <<>>, <<>>, "loader")

\* Tensor::reset: a zero-filled buffer of the given kind and shape.
ResetTensor(kind, dims) == Tensor(kind, dims, Zeros(Product(dims)), "loader")

\* Copies the elements of src, in order, into the front of dst.
CopyInto(dst, src) ==
  [i \in 1..Len(dst) |-> IF i <= Len(src) THEN src[i] ELSE dst[i]]

\* An onnx::TensorProto: the serialized tensor record.
TensorProto(name, data_type, dims, float_data, int64_data, has_raw_data, raw_data) ==
  [name |-> name, data_type |-> data_type, dims |-> dims,
   float_data |-> float_data, int64_data |-> int64_data,
   has_raw_data |-> has_raw_data, raw_data |-> raw_data]

\* The default onnx::TensorProto, of an attribute that carries no tensor.
NoTensorProto == TensorProto("", "UNDEFINED", <<>>, <<>>, <<>>, FALSE, <<>>)

\* loadTensor: the outcomes (a set: "abort" where an assert fires).
loadTensor(in, bld) ==
  LET payload(elems, kind) ==
        IF Len(elems) > 0
          THEN {[ok |-> TRUE,
                 T |-> Tensor(kind, in.dims,
                              CopyInto(Zeros(Product(in.dims)), elems), "loader")]}
        ELSE IF in.has_raw_data
          THEN {[ok |-> TRUE,
                 T |-> Tensor(kind, in.dims,
                              CopyInto(Zeros(Product(in.dims)), in.raw_data), "loader")]}
        ELSE IF bld = "debug"
          THEN {[ok |-> FALSE, T |-> EmptyTensor]}
          ELSE {[ok |-> TRUE, T |-> ResetTensor(kind, in.dims)]}
  IN  IF in.data_type = "FLOAT" THEN payload(in.float_data, "float")
      ELSE IF in.data_type = "INT64" THEN payload(in.int64_data, "index")
      ELSE IF bld = "debug" THEN {[ok |-> FALSE, T |-> EmptyTensor]}
      ELSE {[ok |-> TRUE, T |-> EmptyTensor]}

\* loadShape: a tensor of the declared shape and kind, with no data.
loadShape(in, bld) ==
  IF in.elem_type = "FLOAT" THEN {[ok |-> TRUE, T |-> ResetTensor("float", in.dims)]}
  ELSE IF in.elem_type = "INT64" THEN {[ok |-> TRUE, T |-> ResetTensor("index", in.dims)]}
  ELSE IF bld = "debug" THEN {[ok |-> FALSE, T |-> EmptyTensor]}
  ELSE {[ok |-> TRUE, T |-> EmptyTensor]}

\* Tensor::transpose with the shuffle NCHW2NHWC = {0, 2, 3, 1} on a 4-d tensor.
NCHW2NHWC == <<1, 3, 4, 2>>
NHWC2NCHW == <<1, 4, 2, 3>>

ShuffleDims(dims, perm) == [i \in 1..Len(perm) |-> dims[perm[i]]]

\* The row-major flat index (1-based) of the 4-d coordinate c in shape d.
Flat4(d, c) ==
  (((c[1] - 1) * d[2] + (c[2] - 1)) * d[3] + (c[3] - 1)) * d[4] + c[4]

\* The 4-d coordinate of the flat index k (1-based) in shape d.
Coord4(d, k) ==
  LET z == k - 1
  IN  << (z \div (d[2] * d[3] * d[4])) + 1,
         ((z \div (d[3] * d[4])) % d[2]) + 1,
         ((z \div d[4]) % d[3]) + 1,
         (z % d[4]) + 1 >>

transpose(t, perm) ==
  LET nd == ShuffleDims(t.dims, perm)
      old(k) == LET c == Coord4(nd, k)
                    oc == [j \in 1..4 |->
                            c[CHOOSE i \in 1..4 : perm[i] = j]]
                IN  t.data[Flat4(t.dims, oc)]
  IN  Tensor(t.kind, nd, [k \in 1..Product(nd) |-> old(k)], "loader")

\* --------------------------------------------------------------- attributes
\* An onnx::AttributeProto with protobuf's defaults for the fields not set.
Attr(name) == [name |-> name, type |-> "UNDEFINED", i |-> 0, ints |-> <<>>,
               s |-> "", t |-> NoTensorProto]
AttrInt(name, v) == [Attr(name) EXCEPT !.type = "INT", !.i = v]
AttrInts(name, v) == [Attr(name) EXCEPT !.type = "INTS", !.ints = v]
AttrStr(name, v) == [Attr(name) EXCEPT !.type = "STRING", !.s = v]
AttrTensor(name, t) == [Attr(name) EXCEPT !.type = "TENSOR", !.t = t]

\* loadArgumentMap: the name-keyed view of a node's attribute list; a later
\* attribute of the same name overwrites an earlier one.
RECURSIVE loadArgumentMapFrom(_, _)
loadArgumentMapFrom(attrs, dict) ==
  IF attrs = <<>> THEN dict
  ELSE loadArgumentMapFrom(Tail(attrs), Put(dict, Head(attrs).name, Head(attrs)))

loadArgumentMap(op) == loadArgumentMapFrom(op.attribute, EmptyMap)

count(dict, key) == IF key \in DOMAIN dict THEN 1 ELSE 0

loadInt(arg) == arg.i
loadStr(arg) == arg.s
getShape(arg) == arg.ints

\* Mutant: the version test is off by one.
getBroadcast_OffByOne(dict, opsetVersion) ==
  IF opsetVersion >= 6 THEN TRUE
  ELSE count(dict, "broadcast") # 0 /\ loadInt(dict["broadcast"]) = 1

\* getBroadcast
getBroadcast(dict, opsetVersion) ==
  IF opsetVersion > 6 THEN TRUE
  ELSE count(dict, "broadcast") # 0 /\ loadInt(dict["broadcast"]) = 1

\* getPads: the outcomes. assert(false) stops a debug build; a release build
\* (NDEBUG) falls through to the default return.
getPads(dict, bld) ==
  IF count(dict, "pads") # 0 THEN {[ok |-> TRUE, pads |-> getShape(dict["pads"])]}
  ELSE IF count(dict, "auto_pad") # 0
    THEN IF loadStr(dict["auto_pad"]) = "VALID"
           THEN {[ok |-> TRUE, pads |-> <<0, 0, 0, 0>>]}
         ELSE IF bld = "debug"
           THEN {[ok |-> FALSE, pads |-> <<>>]}
           ELSE {[ok |-> TRUE, pads |-> <<0, 0, 0, 0>>]}
  ELSE {[ok |-> TRUE, pads |-> <<0, 0, 0, 0>>]}

\* ----------------------------------------------------------------- version
\* Mutant: the loop without its break; the last import without a domain wins.
RECURSIVE scanOpsetImport_NoBreak(_, _)
scanOpsetImport_NoBreak(imports, opset) ==
  IF imports = <<>> THEN opset
  ELSE IF ~Head(imports).has_domain \/ Head(imports).domain = ""
    THEN scanOpsetImport_NoBreak(Tail(imports), Head(imports).version)
    ELSE scanOpsetImport_NoBreak(Tail(imports), opset)

\* The loop of setVersion: the version of the first import without a domain,
\* or the value opsetVersion_ had before the loop.
RECURSIVE scanOpsetImport(_, _)
scanOpsetImport(imports, opset) ==
  IF imports = <<>> THEN opset
  ELSE IF ~Head(imports).has_domain \/ Head(imports).domain = ""
    THEN Head(imports).version
    ELSE scanOpsetImport(Tail(imports), opset)

\* setVersion: GLOW_ASSERT stops the load in every build.
setVersion(MP) ==
  IF ~(MP.ir_version >= 3)
    THEN [ok |-> FALSE, irVersion |-> MP.ir_version, opsetVersion |-> 0]
  ELSE LET v == scanOpsetImport(MP.opset_import, 0)
       IN  [ok |-> v > 0, irVersion |-> MP.ir_version, opsetVersion |-> v]

\* ---------------------------------------------------------------- IR nodes
\* A node or variable of the destination Function. `from` is the index of the
\* model node whose lowering created it (0: created outside loadNetwork).
IRNode(kind, name, dims, ins, t, kernel, stride, pads, group, from) ==
  [kind |-> kind, name |-> name, dims |-> dims, ins |-> ins, t |-> t,
   kernel |-> kernel, stride |-> stride, pads |-> pads, group |-> group,
   from |-> from]

\* A node without convolution / pooling parameters.
PlainNode(kind, name, dims, ins, from) ==
  IRNode(kind, name, dims, ins, EmptyTensor, 0, 0, <<>>, 0, from)

\* The loader's state while lowering: T = tensors_, NV = nodeValueByName_,
\* G = the Function.
Loader(T, NV, G) == [T |-> T, NV |-> NV, G |-> G]

\* The variable Module::createVariable makes for a tensor.
VariableNode(name, t, from) ==
  IRNode("Variable", name, t.dims, <<>>, t, 0, 0, <<>>, 0, from)

\* Module::createVariable(name, tensor): appends a variable holding a copy.
createVariable(L, name, t, from) ==
  [L EXCEPT !.G = Append(L.G, VariableNode(name, t, from))]

\* Function::create<Kind>: appends a node; its handle is its index in G.
createNode(L, node) == [L EXCEPT !.G = Append(L.G, node)]

\* Several nodes created one after the other.
createNodes(L, nodes) == [L EXCEPT !.G = L.G \o nodes]

Last(L) == Len(L.G)

\* addNodeAsOutput: binds the node's first output name to the value v.
addNodeAsOutput(L, op, v) == [L EXCEPT !.NV = Put(L.NV, op.output[1], v)]

hasNodeByName(L, name) == name \in DOMAIN L.NV

\* getOrCreateVariableByName: a value already bound to the name, else a new
\* variable made from the table's tensor of that name; fails without either.
getOrCreateVariableByName(L, name, from) ==
  IF hasNodeByName(L, name) THEN [ok |-> TRUE, L |-> L, v |-> L.NV[name]]
  ELSE IF name \in DOMAIN L.T
    THEN LET L1 == createVariable(L, name, L.T[name], from)
         IN  [ok |-> TRUE,
              L |-> [L1 EXCEPT !.NV = Put(L1.NV, name, Last(L1))],
              v |-> Last(L1)]
  ELSE [ok |-> FALSE, L |-> L, v |-> 0]

\* getConstantArrayHead: the first element of an integer-array attribute.
getConstantArrayHead(arg) == arg.ints[1]

\* calculateConvPoolOutputDims(sx, sy, filterSize, stride, pads)
calculateConvPoolOutputDims(sx, sy, kernel, stride, pads) ==
  << ((sx + pads[1] + pads[3] - kernel) \div stride) + 1,
     ((sy + pads[2] + pads[4] - kernel) \div stride) + 1 >>

\* What the IR builder requires of a convolution or pooling window.
WindowOK(h, w, kernel, stride, pads) ==
  /\ Len(pads) = 4
  /\ stride >= 1
  /\ kernel >= 1
  /\ h + pads[1] + pads[3] >= kernel
  /\ w + pads[2] + pads[4] >= kernel

Ok(L) == [status |-> "ok", L |-> L]
Abort(L) == [status |-> "abort", L |-> L]
Unsupported(L) == [status |-> "unsupported", L |-> L]

\* ------------------------------------------------------- operator lowering
\* What a read through a null AttributeProto pointer (dict[key] of a missing
\* key) can yield when it does not crash: any head value.
UndefinedHeads == 0..MaxExtent

\* typeName == "Constant"
LowerConstant(op, dict, L, bld, from) ==
  LET name == op.output[1]
  IN  IF name \in DOMAIN L.T THEN {Ok(L)}
      ELSE IF count(dict, "value") = 0 THEN {Abort(L)}
      ELSE IF dict["value"].type # "TENSOR" /\ bld = "debug" THEN {Abort(L)}
      ELSE { IF r.ok THEN Ok([L EXCEPT !.T = Put(L.T, name, r.T)]) ELSE Abort(L) :
               r \in loadTensor(dict["value"].t, bld) }

\* The bias of a Conv node: zero-filled, of the filter's depth, unless the
\* node lists a third input whose name is in the tensor table.
ConvBias(op, L, depth) ==
  IF Len(op.input) > 2 /\ op.input[3] \in DOMAIN L.T
    THEN [L.T[op.input[3]] EXCEPT !.owner = "loader"]
    ELSE ResetTensor("float", <<depth>>)

\* typeName == "Conv", once the input value and the weights are resolved:
\* the filter and bias variables, the transposes and the convolution.
ConvWith(op, dict, L0, in, w, pads, from) ==
  LET stride == IF count(dict, "strides") # 0
                  THEN getConstantArrayHead(dict["strides"]) ELSE 1
      group == IF count(dict, "group") # 0 THEN loadInt(dict["group"]) ELSE 1
      wtag == transpose(w, NCHW2NHWC)
      depth == wtag.dims[1]
      kernel == IF count(dict, "kernel_shape") # 0
                  THEN getConstantArrayHead(dict["kernel_shape"])
                  ELSE wtag.dims[2]
      base == Len(L0.G)
      idim == ShuffleDims(L0.G[in].dims, NCHW2NHWC)
      outSz == calculateConvPoolOutputDims(idim[2], idim[3], kernel, stride, pads)
      outDims == <<idim[1], outSz[1], outSz[2], depth>>
      created ==
        << VariableNode("conv.filter", wtag, from),
           VariableNode("conv.bias", ConvBias(op, L0, depth), from),
           PlainNode("Transpose", op.name, idim, <<in>>, from),
           IRNode("Conv", op.name, outDims, <<base + 3, base + 1, base + 2>>,
                  EmptyTensor, kernel, stride, pads, group, from),
           PlainNode("Transpose", op.name, ShuffleDims(outDims, NHWC2NCHW),
                     <<base + 4>>, from) >>
  IN  IF WindowOK(idim[2], idim[3], kernel, stride, pads)
        THEN Ok(addNodeAsOutput(createNodes(L0, created), op, base + 5))
        ELSE Abort(L0)

LowerConv(op, dict, L, bld, from) ==
  IF (count(dict, "strides") # 0 /\ dict["strides"].ints = <<>>)
     \/ (count(dict, "kernel_shape") # 0 /\ dict["kernel_shape"].ints = <<>>)
     \/ Len(op.input) < 2
    THEN {Abort(L)}
  ELSE LET r == getOrCreateVariableByName(L, op.input[1], from)
       IN  IF ~r.ok \/ op.input[2] \notin DOMAIN L.T THEN {Abort(L)}
           ELSE IF Len(L.T[op.input[2]].dims) # 4 \/ Len(r.L.G[r.v].dims) # 4
             THEN {Abort(L)}
           ELSE IF count(dict, "kernel_shape") = 0 /\ bld = "debug"
                   /\ L.T[op.input[2]].dims[3] # L.T[op.input[2]].dims[4]
             THEN {Abort(L)}
           ELSE { IF p.ok
                    THEN ConvWith(op, dict, r.L, r.v, L.T[op.input[2]], p.pads, from)
                    ELSE Abort(L) : p \in getPads(dict, bld) }

\* The kernel of a MaxPool / AveragePool node: the head of kernel_shape,
\* replaced by dims()[3] of the node's input when the dictionary holds a
\* global_pooling entry.
PoolKernel(dict, head, inDims) ==
  IF count(dict, "global_pooling") # 0 THEN inDims[4] ELSE head

\* typeName == "MaxPool" || typeName == "AveragePool", once the input value,
\* the head of kernel_shape and the pads are known.
PoolWith(op, dict, L0, in, head, pads, from) ==
  LET stride == IF count(dict, "strides") # 0
                  THEN getConstantArrayHead(dict["strides"]) ELSE 1
      base == Len(L0.G)
      idim == ShuffleDims(L0.G[in].dims, NCHW2NHWC)
      kernel == PoolKernel(dict, head, L0.G[in].dims)
      outSz == calculateConvPoolOutputDims(idim[2], idim[3], kernel, stride, pads)
      outDims == <<idim[1], outSz[1], outSz[2], idim[4]>>
      created ==
        << PlainNode("Transpose", op.name, idim, <<in>>, from),
           IRNode(IF op.op_type = "MaxPool" THEN "PoolMax" ELSE "PoolAvg",
                  op.name, outDims, <<base + 1>>, EmptyTensor,
                  kernel, stride, pads, 0, from),
           PlainNode("Transpose", op.name, ShuffleDims(outDims, NHWC2NCHW),
                     <<base + 2>>, from) >>
  IN  IF WindowOK(idim[2], idim[3], kernel, stride, pads)
        THEN Ok(addNodeAsOutput(createNodes(L0, created), op, base + 3))
        ELSE Abort(L0)

LowerPool(op, dict, L, bld, from) ==
  IF (count(dict, "strides") # 0 /\ dict["strides"].ints = <<>>)
     \/ (count(dict, "kernel_shape") # 0 /\ dict["kernel_shape"].ints = <<>>)
     \/ Len(op.input) < 1
    THEN {Abort(L)}
  ELSE LET r == getOrCreateVariableByName(L, op.input[1], from)
           heads == IF count(dict, "kernel_shape") # 0
                      THEN {getConstantArrayHead(dict["kernel_shape"])}
                      ELSE UndefinedHeads
       IN  IF ~r.ok THEN {Abort(L)}
           ELSE IF Len(r.L.G[r.v].dims) # 4 THEN {Abort(L)}
           ELSE (IF count(dict, "kernel_shape") = 0 THEN {Abort(L)} ELSE {})
                \cup { IF p.ok THEN PoolWith(op, dict, r.L, r.v, h, p.pads, from)
                       ELSE Abort(L) : h \in heads, p \in getPads(dict, bld) }

\* typeName == "GlobalAveragePool", once the input value and the pads are known.
GlobalPoolWith(op, dict, L0, in, pads, from) ==
  LET stride == IF count(dict, "strides") # 0
                  THEN getConstantArrayHead(dict["strides"]) ELSE 1
      base == Len(L0.G)
      kernel == L0.G[in].dims[3]
      idim == ShuffleDims(L0.G[in].dims, NCHW2NHWC)
      outSz == calculateConvPoolOutputDims(idim[2], idim[3], kernel, stride, pads)
      outDims == <<idim[1], outSz[1], outSz[2], idim[4]>>
      created ==
        << PlainNode("Transpose", op.name, idim, <<in>>, from),
           IRNode("PoolAvg", op.name, outDims, <<base + 1>>, EmptyTensor,
                  kernel, stride, pads, 0, from),
           PlainNode("Transpose", op.name, ShuffleDims(outDims, NHWC2NCHW),
                     <<base + 2>>, from) >>
  IN  IF WindowOK(idim[2], idim[3], kernel, stride, pads)
        THEN Ok(addNodeAsOutput(createNodes(L0, created), op, base + 3))
        ELSE Abort(L0)

\* typeName == "GlobalAveragePool"
LowerGlobalAveragePool(op, dict, L, bld, from) ==
  IF (count(dict, "strides") # 0 /\ dict["strides"].ints = <<>>) \/ Len(op.input) < 1
    THEN {Abort(L)}
  ELSE LET r == getOrCreateVariableByName(L, op.input[1], from)
       IN  IF ~r.ok THEN {Abort(L)}
           ELSE IF Len(r.L.G[r.v].dims) # 4 THEN {Abort(L)}
           ELSE IF r.L.G[r.v].dims[3] # r.L.G[r.v].dims[4] THEN {Abort(L)}
           ELSE { IF p.ok THEN GlobalPoolWith(op, dict, r.L, r.v, p.pads, from)
                  ELSE Abort(L) : p \in getPads(dict, bld) }

\* The shape left when the (0-based) axes, each of size 1, are removed.
SqueezeDims(dims, axes) ==
  LET keep == {i \in 1..Len(dims) : \A k \in 1..Len(axes) : axes[k] # i - 1}
      nth(n) == CHOOSE i \in keep : Cardinality({j \in keep : j < i}) = n - 1
  IN  [n \in 1..Cardinality(keep) |-> dims[nth(n)]]

\* The shape with a dimension of size 1 inserted at each (0-based) axis.
ExpandDims(dims, axes) ==
  LET at == {axes[k] + 1 : k \in 1..Len(axes)}
      total == Len(dims) + Cardinality(at)
  IN  [i \in 1..total |->
        IF i \in at THEN 1 ELSE dims[i - Cardinality({j \in at : j < i})]]

\* typeName == "Squeeze" / "Unsqueeze" / "Transpose": one input, one required
\* integer-array attribute (a missing one is a null dereference: the crash).
LowerReshape(op, dict, L, key, from) ==
  IF Len(op.input) < 1 \/ count(dict, key) = 0 THEN {Abort(L)}
  ELSE LET r == getOrCreateVariableByName(L, op.input[1], from)
           inDims == r.L.G[r.v].dims
           arr == getShape(dict[key])
           n == Len(inDims)
           legal ==
             CASE op.op_type = "Squeeze" ->
                    \A k \in 1..Len(arr) : arr[k] \in 0..(n - 1) /\ inDims[arr[k] + 1] = 1
               [] op.op_type = "Unsqueeze" ->
                    \A k \in 1..Len(arr) : arr[k] \in 0..(n + Len(arr) - 1)
               [] OTHER ->
                    Len(arr) = n /\ {arr[k] : k \in 1..Len(arr)} = 0..(n - 1)
           outDims ==
             CASE op.op_type = "Squeeze" -> SqueezeDims(inDims, arr)
               [] op.op_type = "Unsqueeze" -> ExpandDims(inDims, arr)
               [] OTHER -> [i \in 1..n |-> inDims[arr[i] + 1]]
           kind ==
             CASE op.op_type = "Squeeze" -> "Squeeze"
               [] op.op_type = "Unsqueeze" -> "ExpandDims"
               [] OTHER -> "Transpose"
           L1 == createNode(r.L, PlainNode(kind, op.name, outDims, <<r.v>>, from))
       IN  IF ~r.ok THEN {Abort(L)}
           ELSE IF ~legal THEN {Abort(L)}
           ELSE {Ok(addNodeAsOutput(L1, op, Last(L1)))}

\* typeName == "Dropout": the identity; the output name is bound to the input.
LowerDropout(op, dict, L, from) ==
  IF Len(op.input) < 1 THEN {Abort(L)}
  ELSE LET r == getOrCreateVariableByName(L, op.input[1], from)
       IN  IF ~r.ok THEN {Abort(L)} ELSE {Ok(addNodeAsOutput(r.L, op, r.v))}

\* typeName == "BatchNormalization": scale, bias, mean and var are read from
\* the tensor table and copied into the node's four variables.
BatchNormWith(op, L0, in, from) ==
  LET base == Len(L0.G)
      created ==
        << VariableNode("scale", L0.T[op.input[2]], from),
           VariableNode("bias", L0.T[op.input[3]], from),
           VariableNode("mean", L0.T[op.input[4]], from),
           VariableNode("var", L0.T[op.input[5]], from),
           PlainNode("BatchNormalization", op.name, L0.G[in].dims,
                     <<in, base + 1, base + 2, base + 3, base + 4>>, from) >>
  IN  Ok(addNodeAsOutput(createNodes(L0, created), op, base + 5))

LowerBatchNormalization(op, dict, L, from) ==
  IF Len(op.input) < 5 THEN {Abort(L)}
  ELSE LET r == getOrCreateVariableByName(L, op.input[1], from)
       IN  IF ~r.ok \/ \E k \in 2..5 : op.input[k] \notin DOMAIN L.T THEN {Abort(L)}
           ELSE {BatchNormWith(op, r.L, r.v, from)}

\* getOrCreateVariableByName over a list of names, in order.
RECURSIVE getOrCreateAll(_, _, _, _)
getOrCreateAll(L, names, from, acc) ==
  IF names = <<>> THEN [ok |-> TRUE, L |-> L, vs |-> acc]
  ELSE LET r == getOrCreateVariableByName(L, Head(names), from)
       IN  IF ~r.ok THEN [ok |-> FALSE, L |-> L, vs |-> acc]
           ELSE getOrCreateAll(r.L, Tail(names), from, Append(acc, r.v))

\* The sum of dimension i over the values vs of G.
RECURSIVE SumAlong(_, _, _)
SumAlong(G, vs, i) ==
  IF vs = <<>> THEN 0 ELSE G[Head(vs)].dims[i] + SumAlong(G, Tail(vs), i)

\* typeName == "Concat"
LowerConcat(op, dict, L, from) ==
  IF Len(op.input) < 1 \/ count(dict, "axis") = 0 THEN {Abort(L)}
  ELSE LET r == getOrCreateAll(L, op.input, from, <<>>)
           axis == loadInt(dict["axis"])
           d(k) == r.L.G[r.vs[k]].dims
           n == Len(d(1))
           legal == /\ axis \in 0..(n - 1)
                    /\ \A k \in 1..Len(r.vs) :
                         /\ Len(d(k)) = n
                         /\ \A i \in 1..n : i # axis + 1 => d(k)[i] = d(1)[i]
           outDims == [i \in 1..n |->
                        IF i = axis + 1 THEN SumAlong(r.L.G, r.vs, i) ELSE d(1)[i]]
           L1 == createNode(r.L, PlainNode("Concat", op.name, outDims, r.vs, from))
       IN  IF ~r.ok THEN {Abort(L)}
           ELSE IF ~legal THEN {Abort(L)}
           ELSE {Ok(addNodeAsOutput(L1, op, Last(L1)))}

\* typeName == "Gemm", once A, B and C are resolved: A * B + C, with the
\* transposes asked for and C broadcast when getBroadcast says so.
GemmWith(op, dict, L0, vs, opsetVersion, from) ==
  LET broadcastC == getBroadcast(dict, opsetVersion)
      transA == count(dict, "transA") # 0 /\ loadInt(dict["transA"]) # 0
      transB == count(dict, "transB") # 0 /\ loadInt(dict["transB"]) # 0
      dA == L0.G[vs[1]].dims
      dB == L0.G[vs[2]].dims
      dC == L0.G[vs[3]].dims
      tA == IF transA THEN <<dA[2], dA[1]>> ELSE dA
      tB == IF transB THEN <<dB[2], dB[1]>> ELSE dB
      mulDims == <<tA[1], tB[2]>>
      base == Len(L0.G)
      nA == IF transA THEN 1 ELSE 0
      nB == IF transB THEN 1 ELSE 0
      A == IF transA THEN base + 1 ELSE vs[1]
      B == IF transB THEN base + nA + 1 ELSE vs[2]
      mul == base + nA + nB + 1
      C == IF broadcastC THEN mul + 1 ELSE vs[3]
      created ==
        (IF transA THEN <<PlainNode("Transpose", op.name, tA, <<vs[1]>>, from)>>
         ELSE <<>>)
        \o (IF transB THEN <<PlainNode("Transpose", op.name, tB, <<vs[2]>>, from)>>
            ELSE <<>>)
        \o <<PlainNode("MatMul", op.name, mulDims, <<A, B>>, from)>>
        \o (IF broadcastC
              THEN <<PlainNode("Broadcast", op.name, mulDims, <<vs[3]>>, from)>>
              ELSE <<>>)
        \o <<PlainNode("Add", op.name, mulDims, <<mul, C>>, from)>>
      legal == /\ Len(dA) = 2 /\ Len(dB) = 2
               /\ tA[2] = tB[1]
               /\ IF broadcastC
                    THEN /\ Len(dC) <= 2
                         /\ \A i \in 1..Len(dC) : dC[i] = mulDims[i + 2 - Len(dC)]
                    ELSE dC = mulDims
  IN  IF legal
        THEN Ok(addNodeAsOutput(createNodes(L0, created), op, base + Len(created)))
        ELSE Abort(L0)

LowerGemm(op, dict, L, opsetVersion, from) ==
  IF Len(op.input) < 3 THEN {Abort(L)}
  ELSE LET r == getOrCreateAll(L, SubSeq(op.input, 1, 3), from, <<>>)
       IN  IF ~r.ok THEN {Abort(L)}
           ELSE {GemmWith(op, dict, r.L, r.vs, opsetVersion, from)}

\* The operators CommonOperatorLoader lowers for every importer.
CommonOperators == {"Relu"}

\* tryLoadCommonOperator, for an operator it knows: one input, one node.
LowerCommon(op, dict, L, from) ==
  IF Len(op.input) < 1 THEN {Abort(L)}
  ELSE LET r == getOrCreateVariableByName(L, op.input[1], from)
           L1 == createNode(r.L, PlainNode(op.op_type, op.name, r.L.G[r.v].dims,
                              <<r.v>>, from))
       IN  IF ~r.ok THEN {Abort(L)} ELSE {Ok(addNodeAsOutput(L1, op, Last(L1)))}

\* Mutants of the final return: the node is taken as lowered; the container
\* is emptied when the node is refused.
NotLowered_Accepts(L) == {Ok(L)}
NotLowered_RollsBack(L) == {Unsupported([L EXCEPT !.G = <<>>])}

\* The final `return false` of loadOperator: nothing was created.
NotLowered(L) == {Unsupported(L)}

\* The operator types loadOperator lowers itself.
OwnOperators ==
  {"Constant", "Conv", "MaxPool", "AveragePool", "GlobalAveragePool", "Squeeze",
   "Unsqueeze", "Dropout", "BatchNormalization", "Concat", "Gemm", "Transpose"}

\* loadOperator: the outcomes of lowering op, the model's node number `from`.
loadOperator(op, L, opsetVersion, bld, from) ==
  LET dict == loadArgumentMap(op)
      typeName == op.op_type
  IN  IF typeName \in CommonOperators THEN LowerCommon(op, dict, L, from)
      ELSE IF typeName = "Constant" THEN LowerConstant(op, dict, L, bld, from)
      ELSE IF typeName = "Conv" THEN LowerConv(op, dict, L, bld, from)
      ELSE IF typeName = "MaxPool" \/ typeName = "AveragePool"
        THEN LowerPool(op, dict, L, bld, from)
      ELSE IF typeName = "GlobalAveragePool"
        THEN LowerGlobalAveragePool(op, dict, L, bld, from)
      ELSE IF typeName = "Squeeze" THEN LowerReshape(op, dict, L, "axes", from)
      ELSE IF typeName = "Unsqueeze" THEN LowerReshape(op, dict, L, "axes", from)
      ELSE IF typeName = "Dropout" THEN LowerDropout(op, dict, L, from)
      ELSE IF typeName = "BatchNormalization"
        THEN LowerBatchNormalization(op, dict, L, from)
      ELSE IF typeName = "Concat" THEN LowerConcat(op, dict, L, from)
      ELSE IF typeName = "Gemm" THEN LowerGemm(op, dict, L, opsetVersion, from)
      ELSE IF typeName = "Transpose" THEN LowerReshape(op, dict, L, "perm", from)
      ELSE NotLowered(L)

\* ------------------------------------------------------------ model inputs
\* An onnx::NodeProto.
Node(op_type, name, input, output, attribute) ==
  [op_type |-> op_type, name |-> name, input |-> input, output |-> output,
   attribute |-> attribute]

\* An onnx::ValueInfoProto of a declared graph input.
ValueInfo(name, elem_type, dims) ==
  [name |-> name, elem_type |-> elem_type, dims |-> dims]

\* An onnx::OperatorSetIdProto.
OpsetImport(has_domain, domain, version) ==
  [has_domain |-> has_domain, domain |-> domain, version |-> version]

ProtoW == TensorProto("W", "FLOAT", <<2, 1, 1, 1>>, <<5, 6>>, <<>>, FALSE, <<>>)
ProtoB == TensorProto("B", "FLOAT", <<2>>, <<>>, <<>>, TRUE, <<7, 8>>)
ProtoBad == TensorProto("B", "FLOAT", <<2>>, <<>>, <<>>, FALSE, <<>>)

\* The node descriptions the pipeline's models are built from.
NodePool ==
  { Node("Constant", "cW", <<>>, <<"W">>, <<AttrTensor("value", ProtoW)>>),
    Node("Conv", "conv2", <<"X", "W">>, <<"Y">>, <<>>),
    Node("Conv", "conv3", <<"X", "W", "B">>, <<"Y">>,
         <<AttrInts("kernel_shape", <<1>>)>>),
    Node("Conv", "convZ", <<"X", "W", "Z">>, <<"Y">>, <<>>),
    Node("Dropout", "drop", <<"B">>, <<"Z">>, <<>>),
    Node("MaxPool", "pool", <<"X">>, <<"Y">>,
         <<AttrInts("kernel_shape", <<2>>), AttrStr("auto_pad", "SAME_UPPER")>>),
    Node("Relu", "relu", <<"X">>, <<"Y">>, <<>>),
    Node("Foo", "foo", <<"X">>, <<"Y">>, <<>>) }

RECURSIVE SeqsUpTo(_, _)
SeqsUpTo(S, n) ==
  IF n = 0 THEN {<<>>}
  ELSE LET shorter == SeqsUpTo(S, n - 1)
       IN  shorter \cup {Append(q, x) : q \in {t \in shorter : Len(t) = n - 1}, x \in S}

\* The tensors a caller of the file constructor pre-binds (tensorNames, tensors).
CallerX == Tensor("float", <<1, 1, 2, 2>>, <<1, 2, 3, 4>>, "caller")
CallerW == Tensor("float", <<2, 1, 1, 1>>, <<3, 4>>, "caller")
CallerB == Tensor("float", <<2>>, <<9, 9>>, "caller")

PreBoundChoices ==
  { EmptyMap,
    [n \in {"X"} |-> CallerX],
    [n \in {"X", "W", "B"} |->
       IF n = "X" THEN CallerX ELSE IF n = "W" THEN CallerW ELSE CallerB] }

InputChoices ==
  { <<>>,
    <<ValueInfo("X", "FLOAT", <<1, 1, 2, 2>>), ValueInfo("W", "FLOAT", <<2, 1, 1, 1>>),
      ValueInfo("B", "FLOAT", <<2>>)>> }

InitializerChoices == { <<>>, <<ProtoW, ProtoB>>, <<ProtoBad>> }

OutputChoices == { <<>>, <<"Y">> }

HeaderChoices ==
  { [ir_version |-> 3, opset_import |-> <<OpsetImport(FALSE, "", 7)>>],
    [ir_version |-> 2, opset_import |-> <<OpsetImport(FALSE, "", 7)>>] }

\* What decoding the byte stream does: "ok", "malformed" (ParseFromCodedStream
\* returns false and leaves what it decoded), "missing" (the file cannot be opened).
StreamChoices == {"ok", "malformed", "missing"}

\* The decoded model (whole, or the part decoded before a parse failure) and
\* the caller's arguments.
Models ==
  { [stream |-> st, ir_version |-> h.ir_version, opset_import |-> h.opset_import,
     input |-> i, initializer |-> z, node |-> n, output |-> o, tensors |-> pb] :
      st \in StreamChoices, h \in HeaderChoices, i \in InputChoices,
      z \in InitializerChoices, n \in SeqsUpTo(NodePool, MaxNodes),
      o \in OutputChoices, pb \in PreBoundChoices }

\* ------------------------------------------------------------- the pipeline
Step(s, i) == [step |-> s, i |-> i]

\* loadInputs: every declared input gets a shape-only tensor under its name.
RECURSIVE loadInputs(_, _, _)
loadInputs(inputs, T, bld) ==
  IF inputs = <<>> THEN {[ok |-> TRUE, T |-> T]}
  ELSE UNION { IF r.ok THEN loadInputs(Tail(inputs), Put(T, Head(inputs).name, r.T), bld)
               ELSE {[ok |-> FALSE, T |-> T]} : r \in loadShape(Head(inputs), bld) }

\* The table after one initializer is stored under its name.
StoreInitializer(T, name, tensor) == Put(T, name, tensor)

\* loadInitializers: every initializer is materialized and stored.
RECURSIVE loadInitializers(_, _, _)
loadInitializers(inits, T, bld) ==
  IF inits = <<>> THEN {[ok |-> TRUE, T |-> T]}
  ELSE UNION { IF r.ok
                 THEN loadInitializers(Tail(inits),
                                       StoreInitializer(T, Head(inits).name, r.T), bld)
                 ELSE {[ok |-> FALSE, T |-> T]} : r \in loadTensor(Head(inits), bld) }

\* setOutputNodes: one save node per declared output.
RECURSIVE setOutputNodes(_, _, _, _)
setOutputNodes(outputs, NV, G, O) ==
  IF outputs = <<>> THEN [ok |-> TRUE, G |-> G, O |-> O]
  ELSE IF Head(outputs) \notin DOMAIN NV THEN [ok |-> FALSE, G |-> G, O |-> O]
  ELSE LET G1 == Append(G, PlainNode("Save", Head(outputs), <<>>,
                                     <<NV[Head(outputs)]>>, 0))
       IN  setOutputNodes(Tail(outputs), NV, G1, Put(O, Head(outputs), Len(G1)))

\* No helper is called directly during a load.
NoCall == [f |-> "none", attribute |-> <<>>]
NoReturn == [ok |-> FALSE, b |-> FALSE, pads |-> <<>>]

\* The constructors: CommonOperatorLoader(tensorNames, tensors, F) seeds the
\* tensor table with the caller's tensors; parse passes none.
Init ==
  /\ entry \in {"parse", "ctor"}
  /\ build \in {"debug", "release"}
  /\ model \in Models
  /\ entry = "parse" =>
       /\ model.tensors = EmptyMap
       /\ model.stream # "missing"
       /\ model.initializer = <<ProtoW, ProtoB>>
       /\ model.output = <<"Y">>
  /\ entry = "ctor" => model.input # <<>>
  /\ pc = "loadProto"
  /\ irVersion_ = 0
  /\ opsetVersion_ = 0
  /\ tensors_ = model.tensors
  /\ nodeValueByName_ = EmptyMap
  /\ outputsByName_ = EmptyMap
  /\ G_ = <<>>
  /\ idx = 0
  /\ reported = -1
  /\ ret = "running"
  /\ steps = <<>>
  /\ call = NoCall
  /\ retval = NoReturn

\* Where the file constructor goes once loadProto has returned parseNet:
\* GLOW_ASSERT("Cannot load the network.") tests a string literal.
CtorAfterLoadProto(parseNet) == "loadInitializers"

\* Mutant: parse loads the initializers, as the constructor does.
ParseAfterLoadProto_Initializers(parseNet) ==
  IF parseNet THEN "loadInitializers" ELSE "done"

\* Where parse goes once loadProto has returned parseNet.
ParseAfterLoadProto(parseNet) == IF parseNet THEN "loadInputs" ELSE "done"

\* loadProto (all three overloads) with the caller's test of its result.
LoadProto ==
  /\ pc = "loadProto"
  /\ UNCHANGED <<entry, build, model, tensors_, nodeValueByName_, outputsByName_,
                 G_, idx, reported, call, retval>>
  /\ IF model.stream = "missing"
       THEN /\ pc' = "abort"
            /\ UNCHANGED <<irVersion_, opsetVersion_, ret, steps>>
       ELSE LET parseNet == model.stream = "ok"
                v == setVersion(model)
            IN  /\ irVersion_' = v.irVersion
                /\ opsetVersion_' = v.opsetVersion
                /\ steps' = steps \o <<Step("parse", 0), Step("setVersion", 0)>>
                /\ IF ~v.ok THEN pc' = "abort" /\ ret' = ret
                   ELSE IF entry = "parse"
                     THEN /\ pc' = ParseAfterLoadProto(parseNet)
                          /\ ret' = IF parseNet THEN ret ELSE "nullptr"
                     ELSE /\ pc' = CtorAfterLoadProto(parseNet)
                          /\ ret' = ret

LoadInputs ==
  /\ pc = "loadInputs"
  /\ \E r \in loadInputs(model.input, tensors_, build) :
       /\ tensors_' = r.T
       /\ pc' = IF r.ok THEN "loadNetwork" ELSE "abort"
  /\ steps' = Append(steps, Step("loadInputs", 0))
  /\ UNCHANGED <<entry, build, model, irVersion_, opsetVersion_, nodeValueByName_,
                 outputsByName_, G_, idx, reported, ret, call, retval>>

LoadInitializers ==
  /\ pc = "loadInitializers"
  /\ \E r \in loadInitializers(model.initializer, tensors_, build) :
       /\ tensors_' = r.T
       /\ pc' = IF r.ok THEN "loadNetwork" ELSE "abort"
  /\ steps' = Append(steps, Step("loadInitializers", 0))
  /\ UNCHANGED <<entry, build, model, irVersion_, opsetVersion_, nodeValueByName_,
                 outputsByName_, G_, idx, reported, ret, call, retval>>

\* One iteration of loadNetwork's loop: node idx is lowered, or reported.
LoadNetworkStep ==
  /\ pc = "loadNetwork"
  /\ idx < Len(model.node)
  /\ \E r \in loadOperator(model.node[idx + 1],
                           Loader(tensors_, nodeValueByName_, G_),
                           opsetVersion_, build, idx + 1) :
       /\ tensors_' = r.L.T
       /\ nodeValueByName_' = r.L.NV
       /\ G_' = r.L.G
       /\ steps' = Append(steps, Step(r.status, idx + 1))
       /\ CASE r.status = "ok" ->
                 idx' = idx + 1 /\ UNCHANGED <<pc, reported, ret>>
            [] r.status = "unsupported" ->
                 /\ reported' = idx + 1
                 /\ pc' = "done"
                 /\ ret' = IF entry = "parse" THEN "nullptr" ELSE "loader"
                 /\ idx' = idx
            [] OTHER ->
                 pc' = "abort" /\ UNCHANGED <<idx, reported, ret>>
  /\ UNCHANGED <<entry, build, model, irVersion_, opsetVersion_, outputsByName_,
                 call, retval>>

\* loadNetwork returns true: parse returns the loader, the constructor goes
\* on to setOutputNodes.
LoadNetworkEnd ==
  /\ pc = "loadNetwork"
  /\ idx = Len(model.node)
  /\ IF entry = "parse"
       THEN pc' = "done" /\ ret' = "loader"
       ELSE pc' = "setOutputNodes" /\ ret' = ret
  /\ UNCHANGED <<entry, build, model, irVersion_, opsetVersion_, tensors_,
                 nodeValueByName_, outputsByName_, G_, idx, reported, steps,
                 call, retval>>

SetOutputNodes ==
  /\ pc = "setOutputNodes"
  /\ steps' = Append(steps, Step("setOutputNodes", 0))
  /\ IF model.output = <<>> /\ build = "debug"
       THEN pc' = "abort" /\ UNCHANGED <<G_, outputsByName_, ret>>
       ELSE LET r == setOutputNodes(model.output, nodeValueByName_, G_, outputsByName_)
            IN  /\ G_' = r.G
                /\ outputsByName_' = r.O
                /\ pc' = IF r.ok THEN "done" ELSE "abort"
                /\ ret' = IF r.ok THEN "loader" ELSE ret
  /\ UNCHANGED <<entry, build, model, irVersion_, opsetVersion_, tensors_,
                 nodeValueByName_, idx, reported, call, retval>>

Next ==
  \/ LoadProto
  \/ LoadInputs
  \/ LoadInitializers
  \/ LoadNetworkStep
  \/ LoadNetworkEnd
  \/ SetOutputNodes

Spec == Init /\ [][Next]_vars

\* ------------------------------------------- setVersion over many headers
VersionChoices == {0, 1, 7, MaxVersion}
IrChoices == {0, 2, 3, 4}

ImportPool ==
  { OpsetImport(d[1], d[2], v) :
      d \in {<<FALSE, "">>, <<TRUE, "">>, <<TRUE, "ai.onnx.ml">>},
      v \in VersionChoices }

\* Models with one supported node and every header drawn.
VersionModels ==
  { [stream |-> "ok", ir_version |-> ir, opset_import |-> imp,
     input |-> <<ValueInfo("X", "FLOAT", <<1, 1, 2, 2>>)>>,
     initializer |-> <<>>,
     node |-> <<Node("Relu", "relu", <<"X">>, <<"Y">>, <<>>)>>,
     output |-> <<"Y">>, tensors |-> pb] :
      ir \in IrChoices, imp \in SeqsUpTo(ImportPool, MaxImports),
      pb \in {EmptyMap, [n \in {"X"} |-> CallerX]} }

Idle ==
  /\ pc = "loadProto"
  /\ irVersion_ = 0
  /\ opsetVersion_ = 0
  /\ tensors_ = model.tensors
  /\ nodeValueByName_ = EmptyMap
  /\ outputsByName_ = EmptyMap
  /\ G_ = <<>>
  /\ idx = 0
  /\ reported = -1
  /\ ret = "running"
  /\ steps = <<>>
  /\ call = NoCall
  /\ retval = NoReturn

InitVersion ==
  /\ entry \in {"parse", "ctor"}
  /\ build = "debug"
  /\ model \in VersionModels
  /\ (entry = "parse") = (model.tensors = EmptyMap)
  /\ Idle

SpecVersion == InitVersion /\ [][Next]_vars

\* ---------------------------------------- MaxPool / AveragePool over shapes
PoolAttributes ==
  { k \o g :
      k \in {<<>>} \cup {<<AttrInts("kernel_shape", <<e>>)>> : e \in 1..MaxExtent},
      g \in {<<>>} \cup {<<AttrInt("global_pooling", v)>> : v \in {0, 1}} }

\* Models with one pooling node over an input of every spatial extent.
PoolModels ==
  { [stream |-> "ok", ir_version |-> 3,
     opset_import |-> <<OpsetImport(FALSE, "", 7)>>,
     input |-> <<ValueInfo("X", "FLOAT", <<1, 1, h, w>>)>>,
     initializer |-> <<>>,
     node |-> <<Node(ty, "pool", <<"X">>, <<"Y">>, a)>>,
     output |-> <<"Y">>,
     tensors |-> IF pb
                   THEN [n \in {"X"} |->
                           Tensor("float", <<1, 1, h, w>>, Zeros(h * w), "caller")]
                   ELSE EmptyMap] :
      h \in 1..MaxExtent, w \in 1..MaxExtent, ty \in {"MaxPool", "AveragePool"},
      a \in PoolAttributes, pb \in BOOLEAN }

InitPool ==
  /\ entry \in {"parse", "ctor"}
  /\ build \in {"debug", "release"}
  /\ model \in PoolModels
  /\ (entry = "parse") = (model.tensors = EmptyMap)
  /\ Idle

SpecPool == InitPool /\ [][Next]_vars

\* ------------------------------------------- direct calls of the helpers
BroadcastAttrPool ==
  {AttrInt("broadcast", v) : v \in 0..MaxAttrInt} \cup {AttrInt("transA", 1)}

PadsAttrPool ==
  {AttrInts("pads", <<a, a + 1, 0, a>>) : a \in 0..MaxAttrInt}
  \cup {AttrStr("auto_pad", v) : v \in {"VALID", "SAME_UPPER", "SAME_LOWER", "NOTSET"}}

HelperCalls ==
  {[f |-> "getBroadcast", attribute |-> a] : a \in SeqsUpTo(BroadcastAttrPool, MaxAttrs)}
  \cup {[f |-> "getPads", attribute |-> a] : a \in SeqsUpTo(PadsAttrPool, MaxAttrs)}

InitHelpers ==
  /\ call \in HelperCalls
  /\ IF call.f = "getBroadcast"
       THEN opsetVersion_ \in 1..MaxVersion /\ build = "debug"
       ELSE opsetVersion_ = 7 /\ build \in {"debug", "release"}
  /\ pc = "call"
  /\ entry = "parse"
  /\ model = [stream |-> "ok", ir_version |-> 3, opset_import |-> <<>>,
              input |-> <<>>, initializer |-> <<>>, node |-> <<>>,
              output |-> <<>>, tensors |-> EmptyMap]
  /\ irVersion_ = 3
  /\ tensors_ = EmptyMap
  /\ nodeValueByName_ = EmptyMap
  /\ outputsByName_ = EmptyMap
  /\ G_ = <<>>
  /\ idx = 0
  /\ reported = -1
  /\ ret = "running"
  /\ steps = <<>>
  /\ retval = NoReturn

CallGetBroadcast ==
  /\ pc = "call"
  /\ call.f = "getBroadcast"
  /\ retval' = [ok |-> TRUE, b |-> getBroadcast(loadArgumentMap(call), opsetVersion_),
                pads |-> <<>>]
  /\ pc' = "returned"
  /\ UNCHANGED <<entry, build, model, irVersion_, opsetVersion_, tensors_,
                 nodeValueByName_, outputsByName_, G_, idx, reported, ret, steps, call>>

CallGetPads ==
  /\ pc = "call"
  /\ call.f = "getPads"
  /\ \E r \in getPads(loadArgumentMap(call), build) :
       /\ retval' = [ok |-> r.ok, b |-> FALSE, pads |-> r.pads]
       /\ pc' = IF r.ok THEN "returned" ELSE "abort"
  /\ UNCHANGED <<entry, build, model, irVersion_, opsetVersion_, tensors_,
                 nodeValueByName_, outputsByName_, G_, idx, reported, ret, steps, call>>

NextHelpers == CallGetBroadcast \/ CallGetPads

SpecHelpers == InitHelpers /\ [][NextHelpers]_vars

\* ------------------------------------------------------------------ claims
StepNames == {steps[j].step : j \in 1..Len(steps)}

\* The operator types of the lowering table.
LoweringTable == CommonOperators \cup OwnOperators

\* The nodes of the model (1-based) whose operator type is not in the table.
UnsupportedNodes ==
  {i \in 1..Len(model.node) : model.node[i].op_type \notin LoweringTable}

FirstUnsupported == CHOOSE i \in UnsupportedNodes : \A j \in UnsupportedNodes : i <= j

\* C1 (as claimed): in the file constructor every pre-bound name still maps to
\* the caller's tensor after loadInitializers and after every lowered node.
C1_PreBoundKept ==
  entry = "ctor" =>
    \A n \in DOMAIN model.tensors :
      n \in DOMAIN tensors_ /\ tensors_[n] = model.tensors[n]

\* C2: with an unsupported node in the list, loadNetwork stops at the first
\* one: it is the node reported, no later node is lowered or creates anything,
\* and setOutputNodes never runs, so no output is bound.
C2_StopsAtFirstUnsupported ==
  UnsupportedNodes # {} =>
    /\ idx <= FirstUnsupported - 1
    /\ \A k \in 1..Len(G_) : G_[k].from < FirstUnsupported
    /\ \A j \in 1..Len(steps) : steps[j].i <= FirstUnsupported
    /\ reported \in {-1, FirstUnsupported}
    /\ reported # -1 => pc = "done" /\ idx = FirstUnsupported - 1
    /\ (pc = "done" /\ (entry = "ctor" \/ model.stream = "ok")) =>
         reported = FirstUnsupported
    /\ pc # "setOutputNodes"
    /\ "setOutputNodes" \notin StepNames
    /\ outputsByName_ = EmptyMap
    /\ \A k \in 1..Len(G_) : G_[k].kind # "Save"

C2_Witness ==
  /\ pc = "done"
  /\ Len(model.node) = 2
  /\ reported = 1
  /\ model.node[2].op_type \in LoweringTable
  /\ entry = "ctor"
  /\ model.output # <<>>

\* C3 (as claimed): after a parse failure no initializer is materialized, no
\* node is lowered and no output is bound, in either entry point.
C3_ParseFailureStops ==
  model.stream = "malformed" =>
    /\ tensors_ = model.tensors
    /\ G_ = <<>>
    /\ idx = 0
    /\ outputsByName_ = EmptyMap

\* The step expected at position j of a load of the given entry point, with
\* `third` the seeding step that follows the version check.
ExpectedStep(j, third) ==
  IF j = 1 THEN {Step("parse", 0)}
  ELSE IF j = 2 THEN {Step("setVersion", 0)}
  ELSE IF j = 3 THEN {Step(third, 0)}
  ELSE IF j <= Len(model.node) + 3
    THEN {Step(st, j - 3) : st \in {"ok", "unsupported", "abort"}}
  ELSE IF entry = "ctor" THEN {Step("setOutputNodes", 0)}
  ELSE {}

\* The steps are in the pipeline's order; a node is lowered only after every
\* node before it was lowered, and outputs are bound only after all of them.
InOrder(third) ==
  /\ \A j \in 1..Len(steps) : steps[j] \in ExpectedStep(j, third)
  /\ \A j \in 1..Len(steps) : j < Len(steps) /\ j > 3 => steps[j].step = "ok"
  /\ Len(steps) <= Len(model.node) + 4
  /\ idx = Cardinality({j \in 1..Len(steps) : steps[j].step = "ok"})

\* C4 (as claimed): both entry points seed the table from the declared graph
\* inputs after the version check and before the nodes.
C4_BothSeedFromInputs ==
  /\ InOrder("loadInputs")
  /\ entry = "parse" => "loadInitializers" \notin StepNames
                        /\ "setOutputNodes" \notin StepNames

\* The elements an initializer carries.
Payload(z) == IF z.float_data # <<>> THEN z.float_data
              ELSE IF z.int64_data # <<>> THEN z.int64_data ELSE z.raw_data

\* C4 (amended): parse runs parse, version check, loadInputs, then the nodes
\* in order, and never loads initializers or binds outputs; the constructor
\* runs parse, version check, loadInitializers (never loadInputs), then the
\* nodes in order, then setOutputNodes once every node was lowered.
C4_PipelineOrder ==
  /\ InOrder(IF entry = "parse" THEN "loadInputs" ELSE "loadInitializers")
  /\ entry = "parse" =>
       /\ StepNames \cap {"loadInitializers", "setOutputNodes"} = {}
       /\ outputsByName_ = EmptyMap
       /\ \A k \in 1..Len(G_) : G_[k].kind # "Save"
       /\ \A j \in 1..Len(model.initializer) :
            LET z == model.initializer[j]
            IN  (z.name \in DOMAIN tensors_ /\ tensors_[z.name].data = Payload(z)) =>
                  \E i \in 1..idx : /\ model.node[i].op_type = "Constant"
                                     /\ model.node[i].output[1] = z.name
  /\ entry = "ctor" =>
       /\ "loadInputs" \notin StepNames
       /\ DOMAIN outputsByName_ # {} => idx = Len(model.node) /\ pc = "done"
       /\ (pc = "done" /\ reported = -1) =>
            DOMAIN outputsByName_ = {model.output[j] : j \in 1..Len(model.output)}

C4_Witness ==
  /\ entry = "ctor"
  /\ pc = "done"
  /\ Len(model.node) = 2
  /\ model.initializer # <<>>
  /\ "Y" \in DOMAIN outputsByName_
  /\ Len(steps) = 6

\* C5 (as claimed): when the load returns a failure at node k >= 1, the
\* container holds nothing created for the nodes lowered before it.
C5_NoPartialGraph ==
  (pc = "done" /\ reported >= 2) =>
    \A k \in 1..Len(G_) : ~(G_[k].from \in 1..(reported - 1))

IsPrefix(a, b) == Len(a) <= Len(b) /\ SubSeq(b, 1, Len(a)) = a

\* C5 (amended): the failure is reported (parse returns nullptr, the
\* constructor binds no output) but nothing is ever removed from the
\* container: what the earlier nodes created is still there on return.
C5_PartialGraphKept ==
  [][ /\ IsPrefix(G_, G_')
      /\ reported' # reported =>
           /\ G_' = G_
           /\ pc' = "done"
           /\ entry = "parse" => ret' = "nullptr"
           /\ outputsByName_' = EmptyMap ]_vars

C5_Witness ==
  /\ pc = "done"
  /\ reported = 2
  /\ \E k \in 1..Len(G_) : G_[k].from = 1 /\ G_[k].kind = "Relu"

\* The values of a Conv node's third input as the importer can know them:
\* the table's tensor, else the tensor of the variable bound to the name.
KnownValues(name) ==
  IF name \in DOMAIN tensors_ THEN {tensors_[name].data}
  ELSE IF name \in DOMAIN nodeValueByName_
          /\ G_[nodeValueByName_[name]].kind = "Variable"
    THEN {G_[nodeValueByName_[name]].t.data}
  ELSE {}

\* The Conv nodes created by the node lowered last, with their model node.
ConvsJustCreated ==
  {k \in 1..Len(G_) : G_[k].kind = "Conv" /\ G_[k].from = idx /\ idx >= 1}

BiasOf(k) == G_[G_[k].ins[3]].t

DepthOf(k) == G_[G_[k].ins[2]].t.dims[1]

\* C10: the bias is zero-filled of the output depth with fewer
\* than three inputs, and holds the third input's values whenever one is
\* listed, wherever that input comes from.
C10_BiasFromThirdInput ==
  \A k \in ConvsJustCreated :
    LET op == model.node[G_[k].from]
    IN  IF Len(op.input) < 3
          THEN BiasOf(k).data = Zeros(DepthOf(k)) /\ BiasOf(k).dims = <<DepthOf(k)>>
          ELSE \A v \in KnownValues(op.input[3]) : BiasOf(k).data = v


\* The imports (1-based) without a namespace: no domain, or an empty one.
Unnamespaced ==
  {i \in 1..Len(model.opset_import) :
     ~model.opset_import[i].has_domain \/ model.opset_import[i].domain = ""}

FirstUnnamespaced == CHOOSE i \in Unnamespaced : \A j \in Unnamespaced : i <= j

\* C6: setVersion takes the version of the first import without a namespace
\* and ignores the later ones; it fails exactly when irVersion < 3 or that
\* version is not > 0 (or there is none); irVersion 3 with the single import
\* of version 7 gives opsetVersion 7.
C6_SetVersion ==
  pc # "loadProto" =>
    LET passes == /\ model.ir_version >= 3
                  /\ Unnamespaced # {}
                  /\ model.opset_import[FirstUnnamespaced].version > 0
    IN  /\ irVersion_ = model.ir_version
        /\ passes => /\ opsetVersion_ = model.opset_import[FirstUnnamespaced].version
                     /\ ~(pc = "abort" /\ Len(steps) = 2)
        /\ ~passes => pc = "abort" /\ Len(steps) = 2
        /\ (model.ir_version = 3
            /\ model.opset_import = <<OpsetImport(FALSE, "", 7)>>) =>
             opsetVersion_ = 7 /\ passes

C6_Witness ==
  /\ pc = "loadNetwork"
  /\ Len(model.opset_import) = 2
  /\ Unnamespaced = {1, 2}
  /\ model.opset_import[1].version = 7
  /\ model.opset_import[2].version = 1
  /\ opsetVersion_ = 7

\* The attributes of the call (1-based positions) with the given name.
Named(name) == {i \in 1..Len(call.attribute) : call.attribute[i].name = name}

\* The attribute of that name the dictionary keeps: the last one.
Kept(name) ==
  call.attribute[CHOOSE i \in Named(name) : \A j \in Named(name) : j <= i]

\* C7 (as claimed): for opset <= 6 getBroadcast is true exactly when a
\* broadcast attribute is present and non-zero; for opset > 6 it is true.
C7_BroadcastTruthy ==
  (pc = "returned" /\ call.f = "getBroadcast") =>
    retval.b = (opsetVersion_ > 6
                \/ (Named("broadcast") # {} /\ Kept("broadcast").i # 0))

\* C7 (amended): for opset <= 6 getBroadcast is true exactly when a broadcast
\* attribute is present and equal to 1; for opset > 6 it is true.
C7_BroadcastIsOne ==
  (pc = "returned" /\ call.f = "getBroadcast") =>
    retval.b = (opsetVersion_ > 6
                \/ (Named("broadcast") # {} /\ Kept("broadcast").i = 1))

C7_Witness ==
  /\ pc = "returned"
  /\ call.f = "getBroadcast"
  /\ opsetVersion_ = 6
  /\ Named("broadcast") # {}
  /\ Kept("broadcast").i = 1
  /\ retval.b

\* C8 (as claimed): getPads returns pads verbatim when present; else with
\* auto_pad it returns zeros for "VALID" and fails for any other value; with
\* neither it returns zeros.
C8_GetPads ==
  (pc \in {"returned", "abort"} /\ call.f = "getPads") =>
    IF Named("pads") # {}
      THEN retval.ok /\ retval.pads = Kept("pads").ints
    ELSE IF Named("auto_pad") # {}
      THEN IF Kept("auto_pad").s = "VALID"
             THEN retval.ok /\ retval.pads = <<0, 0, 0, 0>>
             ELSE ~retval.ok /\ retval.pads = <<>>
    ELSE retval.ok /\ retval.pads = <<0, 0, 0, 0>>

\* The attributes of the pooling node with the given name.
PoolNamed(op, name) == {i \in 1..Len(op.attribute) : op.attribute[i].name = name}

\* C9 (as claimed): with the global_pooling flag set the pool's kernel is the
\* full spatial extent (height and width) of the channel-last input, whatever
\* kernel_shape says; with the flag absent or 0 it is the head of kernel_shape.
C9_GlobalPoolingKernel ==
  \A k \in 1..Len(G_) :
    G_[k].kind \in {"PoolMax", "PoolAvg"} =>
      LET op == model.node[G_[k].from]
          idim == G_[G_[k].ins[1]].dims
          flagSet == \E i \in PoolNamed(op, "global_pooling") : op.attribute[i].i # 0
      IN  IF flagSet
            THEN G_[k].kernel = idim[2] /\ G_[k].kernel = idim[3]
            ELSE \A i \in PoolNamed(op, "kernel_shape") :
                   G_[k].kernel = op.attribute[i].ints[1]

====
